---------------------------- MODULE Spec2Model ----------------------------
(***************************************************************************)
(* Model of src/python/churn_model.py: the time-lagged churn calculator.   *)
(*                                                                         *)
(* The program computes in IEEE-754 binary64 (Python float / numpy         *)
(* float64).  Several of its properties are decided by the rounding of     *)
(* that arithmetic, so the model carries it: a float is a sign, an         *)
(* arbitrary-precision natural mantissa and a binary exponent, and every   *)
(* operation computes the exact result and rounds it to 53 bits, ties to   *)
(* even, with gradual underflow and overflow to infinity.                  *)
(***************************************************************************)
EXTENDS Integers, Sequences, FiniteSets

(***************************************************************************)
(* Arbitrary-precision naturals: little-endian sequences of limbs below    *)
(* Base, without high zero limbs; << >> is zero.                           *)
(***************************************************************************)
LimbBits == 5 * 3
Base == 2 ^ LimbBits

RECURSIVE Pow2(_)
Pow2(n) == IF n = 0 THEN 1 ELSE 2 * Pow2(n - 1)

RECURSIVE BNorm(_)
BNorm(a) ==
  IF a = << >> THEN << >>
  ELSE IF a[Len(a)] = 0 THEN BNorm(SubSeq(a, 1, Len(a) - 1)) ELSE a

Limb(a, i) == IF i <= Len(a) THEN a[i] ELSE 0

RECURSIVE BFromInt(_)
BFromInt(n) == IF n = 0 THEN << >> ELSE <<n % Base>> \o BFromInt(n \div Base)

RECURSIVE BAddFrom(_, _, _, _)
BAddFrom(a, b, i, c) ==
  IF i > Len(a) /\ i > Len(b)
  THEN IF c = 0 THEN << >> ELSE <<c>>
  ELSE LET t == Limb(a, i) + Limb(b, i) + c
       IN  <<t % Base>> \o BAddFrom(a, b, i + 1, t \div Base)

BAdd(a, b) == BAddFrom(a, b, 1, 0)

\* a - b for a >= b
RECURSIVE BSubFrom(_, _, _, _)
BSubFrom(a, b, i, c) ==
  IF i > Len(a) THEN << >>
  ELSE LET t == Limb(a, i) - Limb(b, i) - c
       IN  IF t < 0 THEN <<t + Base>> \o BSubFrom(a, b, i + 1, 1)
           ELSE <<t>> \o BSubFrom(a, b, i + 1, 0)

BSub(a, b) == BNorm(BSubFrom(a, b, 1, 0))

\* -1, 0, 1 as a < b, a = b, a > b
RECURSIVE BCmpFrom(_, _, _)
BCmpFrom(a, b, i) ==
  IF i = 0 THEN 0
  ELSE IF a[i] < b[i] THEN -1
  ELSE IF a[i] > b[i] THEN 1
  ELSE BCmpFrom(a, b, i - 1)

BCmp(a, b) ==
  IF Len(a) < Len(b) THEN -1
  ELSE IF Len(a) > Len(b) THEN 1
  ELSE BCmpFrom(a, b, Len(a))

\* a * k for 0 <= k < Base
RECURSIVE BMulSmallFrom(_, _, _, _)
BMulSmallFrom(a, k, i, c) ==
  IF i > Len(a) THEN IF c = 0 THEN << >> ELSE <<c>>
  ELSE LET t == a[i] * k + c
       IN  <<t % Base>> \o BMulSmallFrom(a, k, i + 1, t \div Base)

BMulSmall(a, k) == IF k = 0 THEN << >> ELSE BMulSmallFrom(a, k, 1, 0)

BShiftLimbs(a, n) == IF a = << >> THEN << >> ELSE [i \in 1..n |-> 0] \o a

RECURSIVE BMulFrom(_, _, _)
BMulFrom(a, b, i) ==
  IF i > Len(b) THEN << >>
  ELSE BAdd(BMulSmall(a, b[i]), BShiftLimbs(BMulFrom(a, b, i + 1), 1))

BMul(a, b) == IF a = << >> \/ b = << >> THEN << >> ELSE BMulFrom(a, b, 1)

\* <<quotient limbs from limb i down (big-endian, reversed below), remainder>>
RECURSIVE BDivSmallFrom(_, _, _, _)
BDivSmallFrom(a, k, i, r) ==
  IF i = 0 THEN << >>
  ELSE LET t == r * Base + a[i]
       IN  BDivSmallFrom(a, k, i - 1, t % k) \o <<t \div k>>

\* floor(a / k) for 0 < k < Base
BDivSmall(a, k) == BNorm(BDivSmallFrom(a, k, Len(a), 0))

BShl(a, n) == BShiftLimbs(BMulSmall(a, Pow2(n % LimbBits)), n \div LimbBits)

\* floor(a / 2^n)
BShr(a, n) ==
  LET q == n \div LimbBits
  IN  IF q >= Len(a) THEN << >>
      ELSE BDivSmall(SubSeq(a, q + 1, Len(a)), Pow2(n % LimbBits))

RECURSIVE IntBitLen(_)
IntBitLen(n) == IF n = 0 THEN 0 ELSE 1 + IntBitLen(n \div 2)

BBitLen(a) ==
  IF a = << >> THEN 0 ELSE LimbBits * (Len(a) - 1) + IntBitLen(a[Len(a)])

BBit(a, i) == (Limb(a, i \div LimbBits + 1) \div Pow2(i % LimbBits)) % 2

BIsOdd(a) == a # << >> /\ a[1] % 2 = 1

RECURSIVE IntTrailingZeros(_)
IntTrailingZeros(n) == IF n % 2 = 1 THEN 0 ELSE 1 + IntTrailingZeros(n \div 2)

\* number of trailing zero bits of a # 0
RECURSIVE BTrailingZeros(_, _)
BTrailingZeros(a, i) ==
  IF a[i] = 0 THEN LimbBits + BTrailingZeros(a, i + 1)
  ELSE IntTrailingZeros(a[i])

\* the quotient digit qh, lowered until its product with b is at most r
RECURSIVE BDivFix(_, _, _, _)
BDivFix(b, r, qh, prod) ==
  IF BCmp(prod, r) > 0 THEN BDivFix(b, r, qh - 1, BSub(prod, b))
  ELSE <<qh, prod>>

\* Schoolbook long division by limbs, from limb i of a down, for a divisor b
\* whose top limb is at least Base / 2: <<quotient, remainder>>
RECURSIVE BDivModFrom(_, _, _, _, _)
BDivModFrom(a, b, i, q, r) ==
  IF i = 0 THEN <<BNorm(q), r>>
  ELSE LET r1 == BNorm(<<a[i]>> \o r)
           n == Len(b)
           top == Limb(r1, n + 1) * Base + Limb(r1, n)
           qh == IF top \div b[n] < Base THEN top \div b[n] ELSE Base - 1
           f == BDivFix(b, r1, qh, BMulSmall(b, qh))
       IN  IF Len(f) = 2
           THEN BDivModFrom(a, b, i - 1, <<f[1]>> \o q, BSub(r1, f[2]))
           ELSE f

\* <<floor(a / b), a mod b>> for b # 0
BDivMod(a, b) ==
  LET sh == LimbBits - IntBitLen(b[Len(b)])
      a2 == BShl(a, sh)
      d == BDivModFrom(a2, BShl(b, sh), Len(a2), << >>, << >>)
  IN  <<d[1], BShr(d[2], sh)>>

(***************************************************************************)
(* IEEE-754 binary64, the arithmetic of Python's float and numpy.float64.  *)
(* A finite float is (-1)^s * m * 2^e with m odd (or m zero and e = 0), so *)
(* that equal values are equal records; inf marks an infinity.  No NaN is  *)
(* modelled: the program's operations yield none on finite inputs.         *)
(***************************************************************************)
PrecisionBits == 53
MinExponent == -1074
MaxExponent == 1024

Max(i, j) == IF i >= j THEN i ELSE j
Min(i, j) == IF i <= j THEN i ELSE j

FZero(s) == [inf |-> FALSE, s |-> s, m |-> << >>, e |-> 0]
FInf(s) == [inf |-> TRUE, s |-> s, m |-> << >>, e |-> 0]
FIsZero(a) == ~a.inf /\ a.m = << >>

\* the float (-1)^s * m * 2^e of a mantissa that fits: made canonical, and
\* infinite when it reaches 2^MaxExponent
FMake(s, m, e) ==
  IF m = << >> THEN FZero(s)
  ELSE LET tz == BTrailingZeros(m, 1)
           m2 == BShr(m, tz)
       IN  IF BBitLen(m2) + e + tz > MaxExponent THEN FInf(s)
           ELSE [inf |-> FALSE, s |-> s, m |-> m2, e |-> e + tz]

\* round to nearest, ties to even, of the exact value n * 2^e
FRoundExact(s, n, e) ==
  IF n = << >> THEN FZero(s)
  ELSE LET target == Max(e + BBitLen(n) - PrecisionBits, MinExponent)
           sh == target - e
           q == BShr(n, sh)
           r == BSub(n, BShl(q, sh))
           c == BCmp(BShl(r, 1), BShl(<<1>>, sh))
           up == c > 0 \/ (c = 0 /\ BIsOdd(q))
       IN  IF sh <= 0 THEN FMake(s, n, e)
           ELSE FMake(s, IF up THEN BAdd(q, <<1>>) ELSE q, target)

\* the same of a value strictly between n * 2^e and (n + 1) * 2^e when sticky
\* (n then has more than PrecisionBits bits)
FRound(s, n, e, sticky) ==
  IF sticky THEN FRoundExact(s, BAdd(BShl(n, 2), <<1>>), e - 2)
  ELSE FRoundExact(s, n, e)

FNeg(a) == [a EXCEPT !.s = 1 - a.s]
FAbs(a) == [a EXCEPT !.s = 0]

\* -1, 0, 1 as |a| < |b|, |a| = |b|, |a| > |b|, for finite a and b
FCmpMag(a, b) ==
  LET e == Min(a.e, b.e)
  IN  BCmp(BShl(a.m, a.e - e), BShl(b.m, b.e - e))

\* -1, 0, 1 as a < b, a = b, a > b (the zeros are equal)
FCmp(a, b) ==
  IF FIsZero(a) /\ FIsZero(b) THEN 0
  ELSE IF a.s # b.s THEN (IF a.s = 1 THEN -1 ELSE 1)
  ELSE LET c == IF a.inf /\ b.inf THEN 0
                ELSE IF a.inf THEN 1
                ELSE IF b.inf THEN -1
                ELSE FCmpMag(a, b)
       IN  IF a.s = 1 THEN -c ELSE c

FLt(a, b) == FCmp(a, b) < 0
FLe(a, b) == FCmp(a, b) <= 0
FEq(a, b) == FCmp(a, b) = 0

FAdd(a, b) ==
  IF a.inf THEN a
  ELSE IF b.inf THEN b
  ELSE IF FIsZero(a) /\ FIsZero(b) THEN FZero(IF a.s = 1 /\ b.s = 1 THEN 1 ELSE 0)
  ELSE LET e == Min(a.e, b.e)
           x == BShl(a.m, a.e - e)
           y == BShl(b.m, b.e - e)
           c == BCmp(x, y)
       IN  IF a.s = b.s THEN FRoundExact(a.s, BAdd(x, y), e)
           ELSE IF c = 0 THEN FZero(0)
           ELSE IF c > 0 THEN FRoundExact(a.s, BSub(x, y), e)
           ELSE FRoundExact(b.s, BSub(y, x), e)

FSub(a, b) == FAdd(a, FNeg(b))

FMul(a, b) ==
  LET s == (a.s + b.s) % 2
  IN  IF a.inf \/ b.inf THEN FInf(s)
      ELSE FRoundExact(s, BMul(a.m, b.m), a.e + b.e)

GuardBits == 2

\* a / b for b # 0
FDiv(a, b) ==
  LET s == (a.s + b.s) % 2
  IN  IF a.inf THEN FInf(s)
      ELSE IF b.inf \/ FIsZero(a) THEN FZero(s)
      ELSE LET t == Max(0, BBitLen(b.m) + PrecisionBits + GuardBits - BBitLen(a.m))
               d == BDivMod(BShl(a.m, t), b.m)
           IN  FRound(s, d[1], a.e - t - b.e, d[2] # << >>)

RECURSIVE BPow10(_)
BPow10(k) == IF k = 0 THEN <<1>> ELSE BMulSmall(BPow10(k - 1), 10)

\* the float a decimal literal denotes: (-1)^s * digits / 10^k, rounded
FDec(s, digits, k) ==
  LET den == BPow10(k)
      t == BBitLen(den) + PrecisionBits + GuardBits
      d == BDivMod(BShl(BFromInt(digits), t), den)
  IN  FRound(s, d[1], -t, d[2] # << >>)

FInt(n) == IF n < 0 THEN FDec(1, -n, 0) ELSE FDec(0, n, 0)

\* Python's min(a, b): the first argument unless the second is smaller
FMin(a, b) == IF FLt(b, a) THEN b ELSE a

(***************************************************************************)
(* numpy.exp on a float64: the exponential, correctly rounded.  It is      *)
(* computed in fixed point with ExpFracBits fraction bits, as              *)
(* 2^k * exp(r) with x = k * ln 2 + r and 0 <= r <= ln 2, exp(r) by its    *)
(* Taylor series, and then rounded as every other operation is.            *)
(***************************************************************************)
ExpFracBits == 6 * LimbBits
Ln2FracBits == ExpFracBits + LimbBits

\* acc + the sum over k >= n of t / ((2k + 1) * 9^(k - n)), t the current
\* power term
RECURSIVE Ln2Series(_, _, _)
Ln2Series(t, n, acc) ==
  LET sum == BAdd(acc, BDivSmall(t, 2 * n + 1))
      t9 == BDivSmall(t, 9)
  IN  IF t = << >> THEN acc
      ELSE IF Len(sum) >= 0 /\ Len(t9) >= 0 THEN Ln2Series(t9, n + 1, sum)
      ELSE acc

\* ln 2 = 2 * atanh(1/3), scaled by 2^Ln2FracBits
Ln2 == Ln2Series(BDivSmall(BShl(<<1>>, Ln2FracBits + 1), 3), 0, << >>)

\* sum + term * r / n + term * r^2 / (n (n + 1)) + ..., scaled by 2^ExpFracBits
RECURSIVE ExpSeries(_, _, _, _)
ExpSeries(r, n, term, sum) ==
  LET next == BDivSmall(BShr(BMul(term, r), ExpFracBits), n)
  IN  IF next = << >> \/ Len(sum) = 0 THEN sum
      ELSE ExpSeries(r, n + 1, next, BAdd(sum, next))

ExpRangeBits == 11

Exp(x) ==
  IF x.inf THEN (IF x.s = 1 THEN FZero(0) ELSE x)
  ELSE IF FIsZero(x) THEN FInt(1)
  ELSE IF BBitLen(x.m) + x.e > ExpRangeBits
       THEN (IF x.s = 1 THEN FZero(0) ELSE FInf(0))
  ELSE LET sh == x.e + Ln2FracBits
           y == IF sh >= 0 THEN BShl(x.m, sh) ELSE BShr(x.m, -sh)
           d == BDivMod(y, Ln2)
           k0 == Limb(d[1], 1)
           k == IF x.s = 1 THEN -(k0 + 1) ELSE k0
           r == IF x.s = 1 THEN BSub(Ln2, d[2]) ELSE d[2]
           one == BShl(<<1>>, ExpFracBits)
           sum == ExpSeries(BShr(r, Ln2FracBits - ExpFracBits), 1, one, one)
       IN  FRound(0, sum, k - ExpFracBits, TRUE)

(***************************************************************************)
(* Python values.  A str is the sequence of its characters; a dict is the  *)
(* sequence of its <<key, value>> items in insertion order; a dict that    *)
(* the program only reads (scenario, segment) is a TLA+ function whose     *)
(* DOMAIN is its set of keys.                                              *)
(***************************************************************************)
UpperCase ==
  <<"A", "B", "C", "D", "E", "F", "G", "H", "I", "J", "K", "L", "M",
    "N", "O", "P", "Q", "R", "S", "T", "U", "V", "W", "X", "Y", "Z">>
LowerCase ==
  <<"a", "b", "c", "d", "e", "f", "g", "h", "i", "j", "k", "l", "m",
    "n", "o", "p", "q", "r", "s", "t", "u", "v", "w", "x", "y", "z">>

\* str.lower(), on ASCII
StrLower(str) ==
  [i \in 1..Len(str) |->
     IF \E k \in 1..Len(UpperCase) : UpperCase[k] = str[i]
     THEN LowerCase[CHOOSE k \in 1..Len(UpperCase) : UpperCase[k] = str[i]]
     ELSE str[i]]

\* str.replace(old, new) for a one-character old
RECURSIVE StrReplace(_, _, _)
StrReplace(str, old, new) ==
  IF str = << >> THEN << >>
  ELSE (IF Head(str) = old THEN new ELSE <<Head(str)>>)
       \o StrReplace(Tail(str), old, new)

DictHas(d, k) == \E i \in 1..Len(d) : d[i][1] = k
DictGet(d, k) == d[CHOOSE i \in 1..Len(d) : d[i][1] = k][2]
\* d[k] = v: the item keeps its place when the key is already there
DictSet(d, k, v) ==
  IF DictHas(d, k)
  THEN [i \in 1..Len(d) |-> IF d[i][1] = k THEN <<k, v>> ELSE d[i]]
  ELSE Append(d, <<k, v>>)
DictKeys(d) == [i \in 1..Len(d) |-> d[i][1]]

\* dict.get(key, default)
Get(d, k, default) == IF k \in DOMAIN d THEN d[k] ELSE default

(***************************************************************************)
(* churn_model.py                                                          *)
(***************************************************************************)
CHURN_COEFFICIENTS ==
  [intercept        |-> FDec(1, 2944, 3),
   price_change_pct |-> FDec(0, 1, 2),
   price_x_0_4wks   |-> FDec(0, 6, 3),
   price_x_4_8wks   |-> FDec(0, 18, 3),
   price_x_8_12wks  |-> FDec(0, 28, 3),
   price_x_12plus   |-> FDec(0, 8, 3)]

H_0_4 == <<"0", "-", "4", " ", "W", "e", "e", "k", "s">>
H_4_8 == <<"4", "-", "8", " ", "W", "e", "e", "k", "s">>
H_8_12 == <<"8", "-", "1", "2", " ", "W", "e", "e", "k", "s">>
H_12plus == <<"1", "2", "+", " ", "W", "e", "e", "k", "s">>

\* the horizons dict with the 12+ coefficient mistyped as 0.08
HorizonCoefficients_TailTypo ==
  << <<H_0_4, CHURN_COEFFICIENTS.price_x_0_4wks>>,
     <<H_4_8, CHURN_COEFFICIENTS.price_x_4_8wks>>,
     <<H_8_12, CHURN_COEFFICIENTS.price_x_8_12wks>>,
     <<H_12plus, FDec(0, 8, 2)>> >>

\* the horizons dict of predict_churn_by_horizon
HorizonCoefficients ==
  << <<H_0_4, CHURN_COEFFICIENTS.price_x_0_4wks>>,
     <<H_4_8, CHURN_COEFFICIENTS.price_x_4_8wks>>,
     <<H_8_12, CHURN_COEFFICIENTS.price_x_8_12wks>>,
     <<H_12plus, CHURN_COEFFICIENTS.price_x_12plus>> >>

logistic(x) == FDiv(FInt(1), FAdd(FInt(1), Exp(FNeg(x))))

\* a default price change of 1 percent
DefaultPriceChangePct_One == FInt(1)
DefaultPriceChangePct == FInt(0)
DefaultBaselineChurn == FDec(0, 5, 2)

\* log_odds with the interaction term subtracted
LogOdds_MinusInteraction(coef, price_change_pct) ==
  FSub(FAdd(CHURN_COEFFICIENTS.intercept,
            FMul(CHURN_COEFFICIENTS.price_change_pct, price_change_pct)),
       FMul(coef, price_change_pct))

\* log_odds of a horizon with interaction coefficient coef
LogOdds(coef, price_change_pct) ==
  FAdd(FAdd(CHURN_COEFFICIENTS.intercept,
            FMul(CHURN_COEFFICIENTS.price_change_pct, price_change_pct)),
       FMul(coef, price_change_pct))

\* the entry stored under a horizon name
HorizonEntry(churn_prob, churn_uplift) ==
  [churn_rate      |-> churn_prob,
   churn_uplift    |-> churn_uplift,
   churn_uplift_pp |-> FMul(churn_uplift, FInt(100))]

\* churn_uplift with the operands of the subtraction swapped
Uplift_Swapped(churn_prob, baseline_churn) ==
  HorizonEntry(churn_prob, FSub(baseline_churn, churn_prob))

Uplift(churn_prob, baseline_churn) ==
  HorizonEntry(churn_prob, FSub(churn_prob, baseline_churn))

\* the body of the loop over the horizons: the entry of one horizon
HorizonResult(coef, price_change_pct, baseline_churn) ==
  Uplift(logistic(LogOdds(coef, price_change_pct)), baseline_churn)

RECURSIVE HorizonLoop(_, _, _, _)
HorizonLoop(items, price_change_pct, baseline_churn, results_by_horizon) ==
  IF items = << >> THEN results_by_horizon
  ELSE HorizonLoop(Tail(items), price_change_pct, baseline_churn,
         DictSet(results_by_horizon, Head(items)[1],
                 HorizonResult(Head(items)[2], price_change_pct, baseline_churn)))

predict_churn_by_horizon(scenario) ==
  HorizonLoop(HorizonCoefficients,
              Get(scenario, "price_change_pct", DefaultPriceChangePct),
              Get(scenario, "baseline_churn", DefaultBaselineChurn),
              << >>)

\* a default elasticity of -1.0
DefaultElasticity_One == FDec(1, 10, 1)
DefaultElasticity == FDec(1, 20, 1)

\* segment_multiplier without the min(elasticity, 4.0) clamp
Multiplier_NoClamp(elasticity) ==
  FAdd(FDec(0, 7, 1),
       FMul(FDiv(elasticity, FDec(0, 40, 1)), FDec(0, 6, 1)))

\* segment_multiplier with a span of 0.5 in place of 0.6
Multiplier_Span(elasticity) ==
  FAdd(FDec(0, 7, 1),
       FMul(FDiv(FMin(elasticity, FDec(0, 40, 1)), FDec(0, 40, 1)),
            FDec(0, 5, 1)))

\* segment_multiplier for elasticity = abs(...)
Multiplier(elasticity) ==
  FAdd(FDec(0, 7, 1),
       FMul(FDiv(FMin(elasticity, FDec(0, 40, 1)), FDec(0, 40, 1)),
            FDec(0, 6, 1)))

\* segment_multiplier of a segment
SegmentMultiplier(segment) ==
  Multiplier(FAbs(Get(segment, "elasticity", DefaultElasticity)))

\* horizon_key without the .lower()
HorizonKey_NoLower(horizon) ==
  StrReplace(StrReplace(StrReplace(horizon, " ", <<"_">>), "-", <<"_">>),
             "+", <<"p", "l", "u", "s">>)

\* horizon_key of a horizon name
HorizonKey(horizon) ==
  StrLower(StrReplace(StrReplace(StrReplace(horizon, " ", <<"_">>),
                                 "-", <<"_">>),
                      "+", <<"p", "l", "u", "s">>))

ChurnPrefix == <<"c", "h", "u", "r", "n", "_">>
KeyName == <<"n", "a", "m", "e">>
KeySize == <<"s", "i", "z", "e">>

\* the loop that applies the segment multiplier to each horizon
RECURSIVE ScaleLoop(_, _, _)
ScaleLoop(items, segment_multiplier, segment_result) ==
  IF items = << >> THEN segment_result
  ELSE ScaleLoop(Tail(items), segment_multiplier,
         DictSet(segment_result, ChurnPrefix \o HorizonKey(Head(items)[1]),
                 FMul(Head(items)[2].churn_uplift_pp, segment_multiplier)))

\* segment['name'] or segment['size'] raises KeyError
SegmentRaises(segment) ==
  "name" \notin DOMAIN segment \/ "size" \notin DOMAIN segment

\* the segment_result of one iteration that raises nothing
SegmentResult(horizons, segment) ==
  ScaleLoop(horizons, SegmentMultiplier(segment),
            << <<KeyName, segment.name>>, <<KeySize, segment.size>> >>)

\* results.insert(0, segment_result)
ResultsAppend_Front(results, segment_result) == <<segment_result>> \o results

\* results.append(segment_result)
ResultsAppend(results, segment_result) == Append(results, segment_result)

(***************************************************************************)
(* The callers.  Both functions are pure, so a behaviour is a caller       *)
(* building inputs and calling: SpecHorizon calls predict_churn_by_horizon *)
(* on one scenario after another (remembering the call before, for the     *)
(* comparison of two scenarios), SpecSegment runs predict_churn_by_segment *)
(* one loop iteration at a time.                                           *)
(***************************************************************************)
VARIABLES
  scenario,     \* the scenario dict passed in
  segments,     \* the segments list passed in
  pc,           \* "ready", "loop", "returned" or "raised"
  hret,         \* what predict_churn_by_horizon returned (<< >> before)
  prev,         \* << >>, or <<the scenario and result of the call before>>
  idx,          \* the position of the for loop over segments (1-based)
  horizons,     \* the local horizons of the current iteration
  multipliers,  \* segment_multiplier of each iteration run so far
  results,      \* the local results list
  sret          \* << >>, or <<the list predict_churn_by_segment returned>>

vars ==
  <<scenario, segments, pc, hret, prev, idx, horizons, multipliers, results, sret>>

\* an optional dict entry is << >> (key absent) or <<value>>
MkScenario(price, baseline) ==
  [k \in (IF price = << >> THEN {} ELSE {"price_change_pct"})
         \cup (IF baseline = << >> THEN {} ELSE {"baseline_churn"}) |->
     IF k = "price_change_pct" THEN price[1] ELSE baseline[1]]

MkSegment(name, size, elasticity) ==
  [k \in (IF name = << >> THEN {} ELSE {"name"})
         \cup (IF size = << >> THEN {} ELSE {"size"})
         \cup (IF elasticity = << >> THEN {} ELSE {"elasticity"}) |->
     IF k = "name" THEN name[1] ELSE IF k = "size" THEN size[1] ELSE elasticity[1]]

PriceChoices ==
  { << >>, <<FInt(0)>>, <<FDec(0, 1, 17)>>, <<FInt(1)>>, <<FDec(0, 1667, 2)>>,
    <<FInt(3000)>>, <<FInt(5000)>>, <<FInt(-10)>>, <<FInt(-50000)>> }

BaselineChoices ==
  { << >>, <<FDec(0, 5, 2)>>, <<FDec(0, 5002, 5)>>, <<FDec(0, 5, 1)>> }

Scenarios == {MkScenario(p, b) : p \in PriceChoices, b \in BaselineChoices}

SegmentScenarios == { MkScenario(<<FDec(0, 1667, 2)>>, <<FDec(0, 5, 2)>>) }

SegmentChoices ==
  { MkSegment(<<"Premium">>, <<"1200">>, <<FDec(1, 20, 1)>>),
    MkSegment(<<"Premium">>, <<"1200">>, <<FDec(0, 20, 1)>>),
    MkSegment(<<"Basic">>, <<"n/a">>, << >>),
    MkSegment(<<"Trial">>, <<"0">>, <<FInt(0)>>),
    MkSegment(<<"Student">>, <<"50">>, <<FDec(0, 75, 1)>>),
    MkSegment(<< >>, <<"10">>, <<FDec(1, 40, 1)>>),
    MkSegment(<<"Ghost">>, << >>, << >>) }

MaxSegments == 2

RECURSIVE ListsUpTo(_, _)
ListsUpTo(S, n) ==
  IF n = 0 THEN {<< >>}
  ELSE LET shorter == ListsUpTo(S, n - 1)
       IN  shorter \cup {Append(l, x) : l \in shorter, x \in S}

Idle ==
  /\ hret = << >> /\ prev = << >>
  /\ idx = 0 /\ horizons = << >> /\ multipliers = << >>
  /\ results = << >> /\ sret = << >>

InitHorizon ==
  /\ scenario \in Scenarios
  /\ segments = << >>
  /\ pc = "ready"
  /\ Idle

\* result = predict_churn_by_horizon(scenario)
HorizonCall ==
  /\ pc = "ready"
  /\ hret' = predict_churn_by_horizon(scenario)
  /\ pc' = "returned"
  /\ UNCHANGED <<scenario, segments, prev, idx, horizons, multipliers, results, sret>>

\* the caller asks again for another price change, the baseline kept
NextScenario ==
  /\ pc = "returned"
  /\ prev = << >>
  /\ prev' = <<[scenario |-> scenario, result |-> hret]>>
  /\ \E p \in PriceChoices :
       scenario' =
         MkScenario(p, IF "baseline_churn" \in DOMAIN scenario
                       THEN <<scenario.baseline_churn>> ELSE << >>)
  /\ hret' = << >>
  /\ pc' = "ready"
  /\ UNCHANGED <<segments, idx, horizons, multipliers, results, sret>>

NextHorizon == HorizonCall \/ NextScenario

SpecHorizon == InitHorizon /\ [][NextHorizon]_vars

InitSegment ==
  /\ scenario \in SegmentScenarios
  /\ segments \in ListsUpTo(SegmentChoices, MaxSegments)
  /\ pc = "ready"
  /\ Idle

\* predict_churn_by_segment(scenario, segments) is entered: results = []
SegmentCall ==
  /\ pc = "ready"
  /\ pc' = "loop"
  /\ idx' = 1
  /\ results' = << >>
  /\ UNCHANGED <<scenario, segments, hret, prev, horizons, multipliers, sret>>

\* one iteration of the loop over segments: it appends a result, or the
\* KeyError of a missing name or size leaves the function
SegmentIter ==
  /\ pc = "loop"
  /\ idx <= Len(segments)
  /\ \E hs \in {predict_churn_by_horizon(scenario)} :
       /\ horizons' = hs
       /\ multipliers' = Append(multipliers, SegmentMultiplier(segments[idx]))
       /\ IF SegmentRaises(segments[idx])
          THEN /\ pc' = "raised"
               /\ UNCHANGED <<idx, results>>
          ELSE /\ results' = ResultsAppend(results, SegmentResult(hs, segments[idx]))
               /\ idx' = idx + 1
               /\ pc' = "loop"
  /\ UNCHANGED <<scenario, segments, hret, prev, sret>>

\* return results
SegmentReturn ==
  /\ pc = "loop"
  /\ idx > Len(segments)
  /\ sret' = <<results>>
  /\ pc' = "returned"
  /\ UNCHANGED <<scenario, segments, hret, prev, idx, horizons, multipliers, results>>

NextSegment == SegmentCall \/ SegmentIter \/ SegmentReturn

SpecSegment == InitSegment /\ [][NextSegment]_vars

(***************************************************************************)
(* Properties.                                                             *)
(***************************************************************************)
F0 == FInt(0)
F6 == FInt(6)
F9 == FInt(9)
F100 == FInt(100)
F005 == FDec(0, 5, 2)
F07 == FDec(0, 7, 1)
F13 == FDec(0, 13, 1)
F1 == FInt(1)
F4 == FInt(4)
F1667 == FDec(0, 1667, 2)

LogisticOfIntercept == logistic(CHURN_COEFFICIENTS.intercept)

HorizonNames == <<H_0_4, H_4_8, H_8_12, H_12plus>>

Called == pc = "returned" /\ hret # << >>
PriceIsPositive(sc) ==
  "price_change_pct" \in DOMAIN sc /\ FLt(F0, sc.price_change_pct)
PriceIsZero(sc) ==
  "price_change_pct" \notin DOMAIN sc \/ FIsZero(sc.price_change_pct)
PriceOf(sc) == IF "price_change_pct" \in DOMAIN sc THEN sc.price_change_pct ELSE F0
BaselineOf(sc) == IF "baseline_churn" \in DOMAIN sc THEN sc.baseline_churn ELSE F005
UpliftPp(h, name) == DictGet(h, name).churn_uplift_pp
Rate(h, name) == DictGet(h, name).churn_rate
UpliftOf(h, name) == DictGet(h, name).churn_uplift

\* C1 as stated: for a positive price change the uplift in percentage points
\* rises from "0-4 Weeks" to "4-8 Weeks" to "8-12 Weeks", and that of
\* "12+ Weeks" is strictly lower than that of "8-12 Weeks".
C1_OrderingStrict ==
  (Called /\ PriceIsPositive(scenario)) =>
    /\ FLe(UpliftPp(hret, H_0_4), UpliftPp(hret, H_4_8))
    /\ FLe(UpliftPp(hret, H_4_8), UpliftPp(hret, H_8_12))
    /\ FLt(UpliftPp(hret, H_12plus), UpliftPp(hret, H_8_12))

\* C1 amended: for a positive price change the uplift in percentage points
\* rises from "0-4 Weeks" to "4-8 Weeks" to "8-12 Weeks", and that of
\* "12+ Weeks" is lower than or equal to that of "8-12 Weeks".
C1_Ordering ==
  (Called /\ PriceIsPositive(scenario)) =>
    /\ FLe(UpliftPp(hret, H_0_4), UpliftPp(hret, H_4_8))
    /\ FLe(UpliftPp(hret, H_4_8), UpliftPp(hret, H_8_12))
    /\ FLe(UpliftPp(hret, H_12plus), UpliftPp(hret, H_8_12))

\* a positive price change whose result is strictly ordered, peak above tail
C1_Witness ==
  /\ Called /\ PriceIsPositive(scenario)
  /\ FLt(UpliftPp(hret, H_0_4), UpliftPp(hret, H_4_8))
  /\ FLt(UpliftPp(hret, H_4_8), UpliftPp(hret, H_8_12))
  /\ FLt(UpliftPp(hret, H_12plus), UpliftPp(hret, H_8_12))

TwoCalls ==
  /\ Called /\ prev # << >>
  /\ BaselineOf(prev[1].scenario) = BaselineOf(scenario)
  /\ FLt(PriceOf(prev[1].scenario), PriceOf(scenario))

\* C2 as stated: of two calls with the same baseline, the one with the
\* larger price change has the strictly larger churn_rate, churn_uplift and
\* churn_uplift_pp at every horizon.
C2_MonotoneStrict ==
  TwoCalls =>
    \A i \in 1..Len(HorizonNames) :
      /\ FLt(Rate(prev[1].result, HorizonNames[i]), Rate(hret, HorizonNames[i]))
      /\ FLt(UpliftOf(prev[1].result, HorizonNames[i]),
             UpliftOf(hret, HorizonNames[i]))
      /\ FLt(UpliftPp(prev[1].result, HorizonNames[i]),
             UpliftPp(hret, HorizonNames[i]))

\* C2 amended: of two calls with the same baseline, the one with the larger
\* price change has a churn_rate, churn_uplift and churn_uplift_pp at least
\* as large at every horizon.
C2_Monotone ==
  TwoCalls =>
    \A i \in 1..Len(HorizonNames) :
      /\ FLe(Rate(prev[1].result, HorizonNames[i]), Rate(hret, HorizonNames[i]))
      /\ FLe(UpliftOf(prev[1].result, HorizonNames[i]),
             UpliftOf(hret, HorizonNames[i]))
      /\ FLe(UpliftPp(prev[1].result, HorizonNames[i]),
             UpliftPp(hret, HorizonNames[i]))

\* two calls, the second at the larger price, every horizon strictly larger
C2_Witness ==
  /\ TwoCalls
  /\ \A i \in 1..Len(HorizonNames) :
       FLt(Rate(prev[1].result, HorizonNames[i]), Rate(hret, HorizonNames[i]))

\* C7 as stated: for a positive price change the "12+ Weeks" churn_uplift
\* and churn_uplift_pp are strictly positive, whatever the baseline.
C7_TailPositiveAnyBaseline ==
  (Called /\ PriceIsPositive(scenario)) =>
    /\ FLt(F0, UpliftOf(hret, H_12plus))
    /\ FLt(F0, UpliftPp(hret, H_12plus))

\* C7 amended: for a positive price change and a baseline_churn below
\* logistic(intercept) (about 0.050021; the default 0.05 included) the
\* "12+ Weeks" churn_uplift and churn_uplift_pp are strictly positive.
C7_TailPositive ==
  (/\ Called /\ PriceIsPositive(scenario)
   /\ FLt(BaselineOf(scenario), LogisticOfIntercept)) =>
    /\ FLt(F0, UpliftOf(hret, H_12plus))
    /\ FLt(F0, UpliftPp(hret, H_12plus))

\* a positive price change at a supplied baseline above 0.05 and below
\* logistic(intercept), tail uplift above 0
C7_Witness ==
  /\ Called /\ PriceIsPositive(scenario)
  /\ "baseline_churn" \in DOMAIN scenario
  /\ FLt(F005, scenario.baseline_churn)
  /\ FLt(scenario.baseline_churn, LogisticOfIntercept)
  /\ FLt(F0, UpliftPp(hret, H_12plus))

\* C8: for price_change_pct = 16.67 and baseline_churn = 0.05 the
\* churn_uplift_pp of "8-12 Weeks" lies between 6 and 9.
C8_Benchmark ==
  (Called /\ PriceOf(scenario) = F1667 /\ BaselineOf(scenario) = F005) =>
    /\ FLe(F6, UpliftPp(hret, H_8_12))
    /\ FLe(UpliftPp(hret, H_8_12), F9)

\* C9: with price_change_pct 0 or absent every horizon has the churn_rate
\* logistic(intercept), whatever the baseline; churn_uplift is that rate
\* minus baseline_churn (0.05 when absent) and churn_uplift_pp is
\* churn_uplift * 100.
C9_ZeroPrice ==
  (Called /\ PriceIsZero(scenario)) =>
    \A i \in 1..Len(HorizonNames) :
      /\ Rate(hret, HorizonNames[i]) = LogisticOfIntercept
      /\ UpliftOf(hret, HorizonNames[i]) =
           FSub(LogisticOfIntercept, BaselineOf(scenario))
      /\ UpliftPp(hret, HorizonNames[i]) =
           FMul(UpliftOf(hret, HorizonNames[i]), F100)

\* a call with no price_change_pct and no baseline_churn in the scenario
C9_Witness ==
  /\ Called /\ DOMAIN scenario = {}
  /\ Len(hret) = Len(HorizonNames)

F2 == FInt(2)
F06 == FDec(0, 6, 1)
\* 1.3 - 2^-52 = 1.2999999999999998, the double next below 1.3
F13Below == FSub(F13, FRoundExact(0, <<1>>, -52))
MinusTwo == FDec(1, 20, 1)

ElasticityOf(seg) == IF "elasticity" \in DOMAIN seg THEN seg.elasticity ELSE MinusTwo
Magnitude(seg) == FAbs(ElasticityOf(seg))

\* C3 as stated: every segment multiplier lies in [0.7, 1.3], is exactly 1.3
\* when |elasticity| >= 4.0, exactly 0.7 when elasticity is 0, and is the
\* same for e and -e.
C3_MultiplierExact ==
  \A i \in 1..Len(multipliers) :
    /\ FLe(F07, multipliers[i]) /\ FLe(multipliers[i], F13)
    /\ (FLe(F4, Magnitude(segments[i])) => multipliers[i] = F13)
    /\ (FIsZero(ElasticityOf(segments[i])) => multipliers[i] = F07)
    /\ \A j \in 1..Len(multipliers) :
         Magnitude(segments[i]) = Magnitude(segments[j]) =>
           multipliers[i] = multipliers[j]

\* C3 amended: every segment multiplier lies in [0.7, 1.3]; when
\* |elasticity| >= 4.0 it is 1.2999999999999998 (0.7 + 0.6 in binary64, one
\* unit in the last place below 1.3); it is exactly 0.7 when elasticity is 0,
\* and is the same for e and -e.
C3_Multiplier ==
  \A i \in 1..Len(multipliers) :
    /\ FLe(F07, multipliers[i]) /\ FLe(multipliers[i], F13)
    /\ (FLe(F4, Magnitude(segments[i])) => multipliers[i] = F13Below)
    /\ (FIsZero(ElasticityOf(segments[i])) => multipliers[i] = F07)
    /\ \A j \in 1..Len(multipliers) :
         Magnitude(segments[i]) = Magnitude(segments[j]) =>
           multipliers[i] = multipliers[j]

\* a segment with |elasticity| above 4.0 was processed after one with
\* elasticity 0
C3_Witness ==
  /\ Len(multipliers) = 2
  /\ FIsZero(ElasticityOf(segments[1])) /\ multipliers[1] = F07
  /\ FLt(F4, Magnitude(segments[2])) /\ multipliers[2] = F13Below

\* C4: when every segment has name and size the call returns exactly
\* len(segments) results, the i-th carrying the name and size of the i-th
\* segment.
C4_Order ==
  /\ (pc \in {"loop", "returned"} /\ idx > Len(segments)) =>
       \A i \in 1..Len(segments) : ~SegmentRaises(segments[i])
  /\ ((\A i \in 1..Len(segments) : ~SegmentRaises(segments[i])) => pc # "raised")
  /\ (sret # << >> =>
        /\ Len(sret[1]) = Len(segments)
        /\ \A i \in 1..Len(segments) :
             /\ DictGet(sret[1][i], KeyName) = segments[i].name
             /\ DictGet(sret[1][i], KeySize) = segments[i].size)

\* a call with two segments of different names and sizes has returned
C4_Witness ==
  /\ sret # << >> /\ Len(sret[1]) = 2
  /\ segments[1].name # segments[2].name
  /\ segments[1].size # segments[2].size

\* C5: a segment lacking name or size makes the call fault and return
\* nothing, also after valid segments; nothing else faults, and a segment
\* lacking only elasticity is treated as one with elasticity -2.0.
C5_Fault ==
  /\ (pc = "raised" => sret = << >> /\ SegmentRaises(segments[idx]))
  /\ (sret # << >> => \A i \in 1..Len(segments) : ~SegmentRaises(segments[i]))
  /\ \A i \in 1..Len(multipliers) :
       "elasticity" \notin DOMAIN segments[i] =>
         multipliers[i] = FAdd(F07, FMul(FDiv(F2, F4), F06))
  /\ \A i \in 1..Len(results) :
       "elasticity" \notin DOMAIN segments[i] =>
         results[i] = SegmentResult(horizons,
                        MkSegment(<<segments[i].name>>, <<segments[i].size>>,
                                  <<MinusTwo>>))

\* the call faulted on its second segment, after a segment without
\* elasticity got its result
C5_Witness ==
  /\ pc = "raised" /\ Len(results) = 1 /\ sret = << >>
  /\ "elasticity" \notin DOMAIN segments[1]

K_0_4 ==
  <<"c", "h", "u", "r", "n", "_", "0", "_", "4", "_", "w", "e", "e", "k", "s">>
K_4_8 ==
  <<"c", "h", "u", "r", "n", "_", "4", "_", "8", "_", "w", "e", "e", "k", "s">>
K_8_12 ==
  <<"c", "h", "u", "r", "n", "_", "8", "_", "1", "2", "_", "w", "e", "e", "k", "s">>
K_12plus ==
  <<"c", "h", "u", "r", "n", "_", "1", "2", "p", "l", "u", "s", "_",
    "w", "e", "e", "k", "s">>
ChurnKeys == <<K_0_4, K_4_8, K_8_12, K_12plus>>

\* C6: for a segment with elasticity -2.0, 2.0 or none the multiplier is 1.0
\* and each churn_<horizon> field equals the churn_uplift_pp of that horizon.
C6_Neutral ==
  \A i \in 1..Len(multipliers) :
    Magnitude(segments[i]) = F2 =>
      /\ multipliers[i] = F1
      /\ i <= Len(results) =>
           \A h \in 1..Len(HorizonNames) :
             /\ DictHas(results[i], ChurnKeys[h])
             /\ DictGet(results[i], ChurnKeys[h]) = UpliftPp(horizons, HorizonNames[h])

\* segments with elasticity 2.0 and with none both got their results, from
\* horizons whose uplifts are not zero
C6_Witness ==
  /\ Len(results) = 2
  /\ "elasticity" \in DOMAIN segments[1] /\ segments[1].elasticity = F2
  /\ "elasticity" \notin DOMAIN segments[2]
  /\ \A h \in 1..Len(HorizonNames) : ~FIsZero(UpliftPp(horizons, HorizonNames[h]))

\* C10: every result has exactly the six fields name, size, churn_0_4_weeks,
\* churn_4_8_weeks, churn_8_12_weeks and churn_12plus_weeks, all distinct,
\* and each churn field holds the churn_uplift_pp of its horizon times the
\* segment multiplier.
C10_Fields ==
  \A i \in 1..Len(results) :
    /\ Len(results[i]) = 6
    /\ DictKeys(results[i]) = <<KeyName, KeySize>> \o ChurnKeys
    /\ Cardinality({results[i][k][1] : k \in 1..Len(results[i])}) = 6
    /\ \A h \in 1..Len(HorizonNames) :
         /\ ChurnKeys[h] = ChurnPrefix \o HorizonKey(HorizonNames[h])
         /\ DictGet(results[i], ChurnKeys[h]) =
              FMul(UpliftPp(horizons, HorizonNames[h]), multipliers[i])

\* a result scaled by a multiplier other than 1.0
C10_Witness ==
  /\ Len(results) >= 1
  /\ multipliers[1] # F1
  /\ DictGet(results[1], K_12plus) # UpliftPp(horizons, H_12plus)

=============================================================================
